---- MODULE Spec2Model ----
(***************************************************************************)
(* HubSpot MCP server (src/src/index.ts): the tool handlers of MyMCP, the  *)
(* HTTP helper makeApiRequest, the two error wrappers and the response     *)
(* formatter, as a state machine over concurrent tool invocations.         *)
(*                                                                         *)
(* A JavaScript value is a record [t, v]: t is its kind ("undefined",      *)
(* "null", "string", "number", "boolean", "array", "object") and v its     *)
(* payload (a string, an integer, a boolean, a sequence of values, or a    *)
(* sequence of <<key, value>> members in insertion order).                 *)
(***************************************************************************)
EXTENDS Integers, Sequences, FiniteSets, TLC

\* Number of tool invocations that may be in flight together.
NInv == 2
\* Longest properties / associations list of a crm_get_company call.
MaxList == 2

VARIABLES token,      \* hubspotAccessToken captured by init()
          inv,        \* inv[i]: the i-th tool invocation
          data,       \* the value handed to formatResponse (formatter runs)
          formatted   \* what formatResponse returned for data

vars == <<token, inv, data, formatted>>

---------------------------------------------------------------------------
\* JavaScript values

Undefined == [t |-> "undefined", v |-> ""]
Null == [t |-> "null", v |-> ""]
JStr(s) == [t |-> "string", v |-> s]
JNum(n) == [t |-> "number", v |-> n]
JBool(b) == [t |-> "boolean", v |-> b]
JArr(items) == [t |-> "array", v |-> items]
JObj(members) == [t |-> "object", v |-> members]

\* typeof: null, arrays and plain objects are all "object".
TypeOf(d) == IF d.t \in {"null", "array", "object"} THEN "object" ELSE d.t

\* !x for the values the token can take.
Falsy(d) ==
  \/ d.t \in {"undefined", "null"}
  \/ d.t = "string" /\ d.v = ""
  \/ d.t = "number" /\ d.v = 0
  \/ d.t = "boolean" /\ d.v = FALSE

\* obj.key: the member's value, undefined when the key is absent.
RECURSIVE Lookup(_, _)
Lookup(members, key) ==
  IF members = <<>> THEN Undefined
  ELSE IF Head(members)[1] = key THEN Head(members)[2]
  ELSE Lookup(Tail(members), key)

Get(obj, key) == IF obj.t = "object" THEN Lookup(obj.v, key) ELSE Undefined

Digit == <<"0", "1", "2", "3", "4", "5", "6", "7", "8", "9">>

RECURSIVE NatToString(_)
NatToString(n) ==
  IF n < 10 THEN Digit[n + 1]
  ELSE NatToString(n \div 10) \o Digit[(n % 10) + 1]

\* String(n) for an integer n.
NumberToString(n) == IF n < 0 THEN "-" \o NatToString(0 - n) ELSE NatToString(n)

\* A JSON string literal (the model's strings hold no character that JSON escapes).
Quote(s) == "\"" \o s \o "\""

\* JSON.stringify: members whose value is undefined are dropped from an
\* object, an undefined array item is written null.
RECURSIVE JSONstringify(_), JoinItems(_), JoinMembers(_), Defined(_)

Defined(members) ==
  IF members = <<>> THEN <<>>
  ELSE IF Head(members)[2].t = "undefined" THEN Defined(Tail(members))
  ELSE <<Head(members)>> \o Defined(Tail(members))

JoinItems(items) ==
  IF items = <<>> THEN ""
  ELSE (IF Head(items).t = "undefined" THEN "null" ELSE JSONstringify(Head(items)))
       \o (IF Tail(items) = <<>> THEN "" ELSE "," \o JoinItems(Tail(items)))

JoinMembers(members) ==
  IF members = <<>> THEN ""
  ELSE Quote(Head(members)[1]) \o ":" \o JSONstringify(Head(members)[2])
       \o (IF Tail(members) = <<>> THEN "" ELSE "," \o JoinMembers(Tail(members)))

JSONstringify(d) ==
  CASE d.t = "string" -> Quote(d.v)
    [] d.t = "number" -> NumberToString(d.v)
    [] d.t = "boolean" -> (IF d.v THEN "true" ELSE "false")
    [] d.t = "null" -> "null"
    [] d.t = "array" -> "[" \o JoinItems(d.v) \o "]"
    [] d.t = "object" -> "{" \o JoinMembers(Defined(d.v)) \o "}"

\* String(x) for the primitives that reach the last branch of formatResponse.
StringOf(d) ==
  CASE d.t = "number" -> NumberToString(d.v)
    [] d.t = "boolean" -> (IF d.v THEN "true" ELSE "false")
    [] d.t = "string" -> d.v
    [] d.t = "null" -> "null"
    [] d.t = "undefined" -> "undefined"

---------------------------------------------------------------------------
\* formatResponse

Envelope(text) == [content |-> <<[type |-> "text", text |-> text]>>]

NoEnvelope == [content |-> <<>>]

\* The typeof-object test ahead of the null test: null is serialised.
formatResponseObjectFirst(d) ==
  Envelope(IF TypeOf(d) = "string" THEN d.v
           ELSE IF TypeOf(d) = "object" THEN JSONstringify(d)
           ELSE IF d.t \in {"null", "undefined"} THEN "No data returned"
           ELSE StringOf(d))

formatResponse(d) ==
  Envelope(IF TypeOf(d) = "string" THEN d.v
           ELSE IF d.t \in {"null", "undefined"} THEN "No data returned"
           ELSE IF TypeOf(d) = "object" THEN JSONstringify(d)
           ELSE StringOf(d))

---------------------------------------------------------------------------
\* URLSearchParams and the request makeApiRequest hands to fetch

Chars(s) == {SubSeq(s, k, k) : k \in 1..Len(s)}

\* Characters the application/x-www-form-urlencoded serialiser leaves alone.
Unreserved ==
  Chars("abcdefghijklmnopqrstuvwxyzABCDEFGHIJKLMNOPQRSTUVWXYZ0123456789*-._")

PercentCode(c) ==
  CASE c = "," -> "%2C"
    [] c = "/" -> "%2F"
    [] c = "&" -> "%26"
    [] c = "=" -> "%3D"
    [] c = "?" -> "%3F"
    [] c = "%" -> "%25"
    [] c = "+" -> "%2B"
    [] c = ":" -> "%3A"
    [] c = "#" -> "%23"

EncodeChar(c) ==
  IF c \in Unreserved THEN c ELSE IF c = " " THEN "+" ELSE PercentCode(c)

\* The query built by concatenation, nothing escaped.
FormEncodeRaw(s) == s

RECURSIVE FormEncode(_)
FormEncode(s) ==
  IF Len(s) = 0 THEN ""
  ELSE EncodeChar(SubSeq(s, 1, 1)) \o FormEncode(SubSeq(s, 2, Len(s)))

\* Array.prototype.join over an array of strings.
RECURSIVE ArrayJoin(_, _)
ArrayJoin(items, sep) ==
  IF items = <<>> THEN ""
  ELSE Head(items).v
       \o (IF Tail(items) = <<>> THEN "" ELSE sep \o ArrayJoin(Tail(items), sep))

\* arr?.join(","): undefined stays undefined, an array (empty or not) becomes a string.
OptionalJoin(arr) ==
  IF arr.t \in {"undefined", "null"} THEN Undefined ELSE JStr(ArrayJoin(arr.v, ","))

\* queryParams.toString() after appending every entry whose value is not undefined.
RECURSIVE SerializeEntries(_)
SerializeEntries(members) ==
  IF members = <<>> THEN ""
  ELSE FormEncode(Head(members)[1]) \o "=" \o FormEncode(StringOf(Head(members)[2]))
       \o (IF Tail(members) = <<>> THEN "" ELSE "&" \o SerializeEntries(Tail(members)))

QueryString(params) == SerializeEntries(Defined(params.v))

BaseUrl == "https://api.hubapi.com"

BuildUrl(endpoint, params) ==
  BaseUrl \o endpoint
  \o (IF QueryString(params) # "" THEN "?" \o QueryString(params) ELSE "")

BuildHeaders(apiKey, body) ==
  << <<"Accept", "application/json">>,
     <<"Authorization", "Bearer " \o StringOf(apiKey)>> >>
  \o (IF Falsy(body) THEN <<>> ELSE << <<"Content-Type", "application/json">> >>)

NoRequest == [url |-> "", method |-> "", headers |-> <<>>, body |-> Undefined]

\* url and requestOptions as passed to fetch; body undefined when none is sent.
BuildRequest(apiKey, endpoint, params, method, body) ==
  [url |-> BuildUrl(endpoint, params),
   method |-> method,
   headers |-> BuildHeaders(apiKey, body),
   body |-> IF Falsy(body) THEN Undefined ELSE JStr(JSONstringify(body))]

\* Only an absent token counts as missing; the empty string goes to fetch.
MissingTokenUndefinedOnly(apiKey) == apiKey.t = "undefined"

\* if (!apiKey) throw
MissingToken(apiKey) == Falsy(apiKey)

MissingTokenMessage == "HUBSPOT_ACCESS_TOKEN environment variable is not set"

\* response.ok
ResponseOk(status) == status \in 200..299

---------------------------------------------------------------------------
\* Outcomes of a call: a returned value, a thrown Error, or none yet

Return(v) == [kind |-> "return", val |-> v]
Throw(e) == [kind |-> "throw", val |-> e]
NoOutcome == [kind |-> "none", val |-> Undefined]

ErrorObj(msg) == JObj(<< <<"message", JStr(msg)>> >>)

\* Every status but the non-ok ones goes on to response.json(), 204 included.
AfterFetchNo204(status) ==
  IF ~ResponseOk(status)
    THEN Return(JStr("Error fetching data from HubSpot: Status " \o NumberToString(status)))
    ELSE NoOutcome

\* What makeApiRequest returns once fetch has resolved with this status;
\* no outcome yet when it goes on to await response.json().
AfterFetch(status) ==
  IF ~ResponseOk(status)
    THEN Return(JStr("Error fetching data from HubSpot: Status " \o NumberToString(status)))
  ELSE IF status = 204
    THEN Return(JStr("No data returned: Status " \o NumberToString(status)))
  ELSE NoOutcome

\* The data returned as it is, not formatted.
makeApiRequestWithErrorHandlingRaw(api) ==
  IF api.kind = "throw"
    THEN Return(formatResponse(JStr("Error performing request: "
                                    \o StringOf(Get(api.val, "message")))))
    ELSE Return(api.val)

\* The caught message formatted without the prefix.
makeApiRequestWithErrorHandlingBare(api) ==
  IF api.kind = "throw"
    THEN Return(formatResponse(Get(api.val, "message")))
    ELSE Return(formatResponse(api.val))

\* try { data = await makeApiRequest(..); return formatResponse(data) }
\* catch (error) { return formatResponse(`Error performing request: ${error.message}`) }
makeApiRequestWithErrorHandling(api) ==
  IF api.kind = "throw"
    THEN Return(formatResponse(JStr("Error performing request: "
                                    \o StringOf(Get(api.val, "message")))))
    ELSE Return(formatResponse(api.val))

\* try { return await apiCall() } catch (error) { return formatResponse(error.message) }
handleEndpoint(out) ==
  IF out.kind = "throw" THEN Return(formatResponse(Get(out.val, "message"))) ELSE out

---------------------------------------------------------------------------
\* Configuration and the tools registered by init()

TokenKey == "HUBSPOT_ACCESS_TOKEN"

\* config?.HUBSPOT_ACCESS_TOKEN ?? env?.HUBSPOT_ACCESS_TOKEN
getConfig(config, env) ==
  IF Get(config, TokenKey).t \in {"undefined", "null"}
    THEN Get(env, TokenKey)
    ELSE Get(config, TokenKey)

\* z.enum of a search filter's operator
Operators ==
  {"EQ", "NEQ", "LT", "LTE", "GT", "GTE", "BETWEEN", "IN", "NOT_IN",
   "HAS_PROPERTY", "NOT_HAS_PROPERTY", "CONTAINS_TOKEN", "NOT_CONTAINS_TOKEN"}

FiltersValid(filters) ==
  \A k \in 1..Len(filters.v) : Get(filters.v[k], "operator").v \in Operators

\* The part of the argument schemas that the calls of the model can fail:
\* every filter of every filter group carries an operator of the enumeration.
SchemaAccepts(c) ==
  c.tool = "crm_search_companies" =>
    \A g \in 1..Len(Get(c.args, "filterGroups").v) :
      FiltersValid(Get(Get(c.args, "filterGroups").v[g], "filters"))

ApiCall(endpoint, params, method, body) ==
  [endpoint |-> endpoint, params |-> params, method |-> method, body |-> body]

createCompany(args) ==
  ApiCall("/crm/v3/objects/companies", JObj(<<>>), "POST",
          JObj(<< <<"properties", Get(args, "properties")>>,
                  <<"associations", Get(args, "associations")>> >>))

updateCompany(args) ==
  ApiCall("/crm/v3/objects/companies/" \o StringOf(Get(args, "companyId")),
          JObj(<<>>), "PATCH",
          JObj(<< <<"properties", Get(args, "properties")>> >>))

\* method and body are makeApiRequest's defaults: 'GET' and null.
getCompany(args) ==
  ApiCall("/crm/v3/objects/companies/" \o StringOf(Get(args, "companyId")),
          JObj(<< <<"properties", OptionalJoin(Get(args, "properties"))>>,
                  <<"associations", OptionalJoin(Get(args, "associations"))>> >>),
          "GET", Null)

searchCompanies(args) ==
  ApiCall("/crm/v3/objects/companies/search", JObj(<<>>), "POST",
          JObj(<< <<"filterGroups", Get(args, "filterGroups")>>,
                  <<"properties", Get(args, "properties")>>,
                  <<"limit", Get(args, "limit")>>,
                  <<"after", Get(args, "after")>>,
                  <<"sorts", Get(args, "sorts")>> >>))

HandlerCall(c) ==
  CASE c.tool = "crm_create_company" -> createCompany(c.args)
    [] c.tool = "crm_update_company" -> updateCompany(c.args)
    [] c.tool = "crm_get_company" -> getCompany(c.args)
    [] c.tool = "crm_search_companies" -> searchCompanies(c.args)

\* The add handler: content [{text: String(a + b), type: "text"}].
addHandler(args) == Return(Envelope(NumberToString(Get(args, "a").v + Get(args, "b").v)))

---------------------------------------------------------------------------
\* Invocations

Inv == 1..NInv

NoCall == [tool |-> "", args |-> Undefined]

\* pc: "idle" (not started), "fetch" (awaiting fetch), "json" (awaiting
\* response.json()), "done" (the handler returned or raised: result),
\* "rejected" (the schema refused the arguments; the handler never ran).
Idle ==
  [pc |-> "idle", call |-> NoCall, request |-> NoRequest, fetches |-> 0,
   parses |-> 0, status |-> 0, api |-> NoOutcome, result |-> NoOutcome]

\* makeApiRequest has returned or thrown: both wrappers run to the handler's result.
Finished(r, api) ==
  [r EXCEPT !.pc = "done",
            !.api = api,
            !.result = handleEndpoint(makeApiRequestWithErrorHandling(api))]

\* The request a CRM handler's makeApiRequest passes to fetch.
RequestOf(c) ==
  BuildRequest(token, HandlerCall(c).endpoint, HandlerCall(c).params,
               HandlerCall(c).method, HandlerCall(c).body)

\* A tool call runs from dispatch to its first suspend point.
Started(c) ==
  IF ~SchemaAccepts(c) THEN [Idle EXCEPT !.pc = "rejected", !.call = c]
  ELSE IF c.tool = "add"
    THEN [Idle EXCEPT !.pc = "done", !.call = c, !.result = addHandler(c.args)]
  ELSE IF MissingToken(token)
    THEN Finished([Idle EXCEPT !.call = c], Throw(ErrorObj(MissingTokenMessage)))
  ELSE [Idle EXCEPT !.pc = "fetch", !.call = c, !.request = RequestOf(c),
                    !.fetches = 1]

\* A non-ok status sends the request again.
ResolvedRetry(r, status) ==
  IF ~ResponseOk(status)
    THEN [r EXCEPT !.fetches = @ + 1]
  ELSE IF AfterFetch(status).kind = "none"
    THEN [r EXCEPT !.pc = "json", !.status = status, !.parses = @ + 1]
  ELSE Finished([r EXCEPT !.status = status], AfterFetch(status))

\* fetch resolved with a response of this status.
Resolved(r, status) ==
  IF AfterFetch(status).kind = "none"
    THEN [r EXCEPT !.pc = "json", !.status = status, !.parses = @ + 1]
    ELSE Finished([r EXCEPT !.status = status], AfterFetch(status))

Invoke(i, c) ==
  /\ inv[i].pc = "idle"
  /\ inv' = [inv EXCEPT ![i] = Started(c)]
  /\ UNCHANGED <<token, data, formatted>>

\* The response kept in a field of the agent: every invocation awaiting
\* fetch takes the response that arrived for one of them.
FetchResolveShared(i, status) ==
  /\ inv[i].pc = "fetch"
  /\ inv' = [j \in Inv |-> IF inv[j].pc = "fetch" THEN Resolved(inv[j], status)
                           ELSE inv[j]]
  /\ UNCHANGED <<token, data, formatted>>

FetchResolve(i, status) ==
  /\ inv[i].pc = "fetch"
  /\ inv' = [inv EXCEPT ![i] = Resolved(inv[i], status)]
  /\ UNCHANGED <<token, data, formatted>>

\* fetch rejected: the exception leaves makeApiRequest.
FetchReject(i, msg) ==
  /\ inv[i].pc = "fetch"
  /\ inv' = [inv EXCEPT ![i] = Finished(inv[i], Throw(ErrorObj(msg)))]
  /\ UNCHANGED <<token, data, formatted>>

\* response.json() resolved with the parsed body.
JsonResolve(i, body) ==
  /\ inv[i].pc = "json"
  /\ inv' = [inv EXCEPT ![i] = Finished(inv[i], Return(body))]
  /\ UNCHANGED <<token, data, formatted>>

\* response.json() rejected: the body is not JSON.
JsonReject(i, msg) ==
  /\ inv[i].pc = "json"
  /\ inv' = [inv EXCEPT ![i] = Finished(inv[i], Throw(ErrorObj(msg)))]
  /\ UNCHANGED <<token, data, formatted>>

\* One run of the formatter on its own.
Format ==
  /\ formatted = NoEnvelope
  /\ formatted' = formatResponse(data)
  /\ UNCHANGED <<token, inv, data>>

---------------------------------------------------------------------------
\* Inputs: configurations, tool calls and what the network answers

Call(tool, args) == [tool |-> tool, args |-> args]

TokenConfig(s) == JObj(<< <<TokenKey, JStr(s)>> >>)

\* this.props as handed to getConfig, and this.env
PropsConfigs == {Undefined, JObj(<<>>), TokenConfig(""), TokenConfig("pat-props")}
EnvConfigs == {Undefined, TokenConfig("")}

CompanyProps ==
  JObj(<< <<"name", JStr("Acme")>>, <<"numberofemployees", JNum(12)>> >>)

Association ==
  JObj(<< <<"to", JObj(<< <<"id", JStr("42")>> >>)>>,
          <<"types", JArr(<< JObj(<< <<"associationCategory", JStr("HUBSPOT_DEFINED")>>,
                                     <<"associationTypeId", JNum(280)>> >>) >>)>> >>)

Filter(op) ==
  JObj(<< <<"propertyName", JStr("name")>>, <<"operator", JStr(op)>>,
          <<"value", JStr("Acme")>> >>)

SearchArgs(op) ==
  JObj(<< <<"filterGroups",
            JArr(<< JObj(<< <<"filters", JArr(<<Filter("EQ"), Filter(op)>>)>> >>) >>)>>,
          <<"limit", JNum(10)>> >>)

GetArgs(id, props, assocs) ==
  JObj(<< <<"companyId", JStr(id)>>, <<"properties", props>>,
          <<"associations", assocs>> >>)

AddCalls ==
  {Call("add", JObj(<< <<"a", JNum(a)>>, <<"b", JNum(3)>> >>)) : a \in {2, -5}}

CrmCalls ==
  {Call("crm_create_company", JObj(<< <<"properties", CompanyProps>> >>)),
   Call("crm_create_company",
        JObj(<< <<"properties", CompanyProps>>,
                <<"associations", JArr(<<Association>>)>> >>)),
   Call("crm_update_company",
        JObj(<< <<"companyId", JStr("123")>>, <<"properties", CompanyProps>> >>)),
   Call("crm_get_company", GetArgs("123", Undefined, Undefined)),
   Call("crm_get_company",
        GetArgs("123", JArr(<<JStr("name"), JStr("domain")>>), Undefined)),
   Call("crm_search_companies", SearchArgs("CONTAINS_TOKEN")),
   Call("crm_search_companies", SearchArgs("LIKE"))}

Calls == AddCalls \cup CrmCalls

\* Lists of at most MaxList strings drawn from a set.
RECURSIVE ListsUpTo(_, _)
ListsUpTo(S, n) ==
  IF n = 0 THEN {<<>>}
  ELSE ListsUpTo(S, n - 1)
       \cup {Append(l, x) : l \in {m \in ListsUpTo(S, n - 1) : Len(m) = n - 1}, x \in S}

PropertyNames == {JStr("name"), JStr("domain"), JStr("hs object:id")}
AssociationNames == {JStr("contacts"), JStr("deals"), JStr("tickets")}

OptionalLists(S) == {Undefined} \cup {JArr(l) : l \in ListsUpTo(S, MaxList)}

\* The crm_get_company calls of the request-builder runs.
GetCalls ==
  {Call("crm_get_company", GetArgs(id, p, a)) :
     id \in {"123", "9001"},
     p \in OptionalLists(PropertyNames),
     a \in OptionalLists(AssociationNames)}

Statuses == {200, 201, 204, 404, 500}

NetworkErrors == {"Network connection lost."}

ParseErrors == {"Unexpected end of JSON input"}

\* Parsed response bodies.
Bodies ==
  {JObj(<< <<"id", JStr("123")>>, <<"archived", JBool(FALSE)>> >>), Null}

\* Values handed to the formatter: JSON values and undefined.
Atoms ==
  {Undefined, Null, JStr(""), JStr("ok"), JStr("No data returned: Status 204"),
   JBool(TRUE), JBool(FALSE), JNum(0), JNum(7), JNum(-12), JNum(204)}

FormatInputs ==
  Atoms
  \cup {JArr(l) : l \in ListsUpTo(Atoms, MaxList)}
  \cup {JObj(<< <<"id", x>> >>) : x \in Atoms}
  \cup {JObj(<< <<"id", x>>, <<"results", JArr(<<y, JObj(<< <<"name", x>> >>)>>)>> >>) :
          x \in Atoms, y \in Atoms}

---------------------------------------------------------------------------
\* Specifications

Init ==
  /\ token \in {getConfig(p, e) : p \in PropsConfigs, e \in EnvConfigs}
  /\ inv = [i \in Inv |-> Idle]
  /\ data = Undefined
  /\ formatted = NoEnvelope

Next ==
  \E i \in Inv :
    \/ \E c \in Calls : Invoke(i, c)
    \/ \E s \in Statuses : FetchResolve(i, s)
    \/ \E m \in NetworkErrors : FetchReject(i, m)
    \/ \E b \in Bodies : JsonResolve(i, b)
    \/ \E m \in ParseErrors : JsonReject(i, m)

\* Concurrent tool invocations against one captured token.
Spec == Init /\ [][Next]_vars

NextGet ==
  \/ \E c \in GetCalls : Invoke(1, c)
  \/ \E s \in Statuses : FetchResolve(1, s)
  \/ \E m \in NetworkErrors : FetchReject(1, m)
  \/ \E b \in Bodies : JsonResolve(1, b)
  \/ \E m \in ParseErrors : JsonReject(1, m)

\* One crm_get_company invocation over the lists of properties and associations.
SpecGet == Init /\ [][NextGet]_vars

InitFormat ==
  /\ token = Undefined
  /\ inv = [i \in Inv |-> Idle]
  /\ data \in FormatInputs
  /\ formatted = NoEnvelope

\* formatResponse applied to each input.
SpecFormat == InitFormat /\ [][Format]_vars

---------------------------------------------------------------------------
\* Properties

CrmTools ==
  {"crm_create_company", "crm_update_company", "crm_get_company",
   "crm_search_companies"}

IsEnvelope(v) ==
  /\ DOMAIN v = {"content"}
  /\ Len(v.content) = 1
  /\ DOMAIN v.content[1] = {"type", "text"}
  /\ v.content[1].type = "text"
  /\ v.content[1].text \in STRING

\* The text of the Envelope an invocation returned.
TextOf(r) == r.result.val.content[1].text

StartsWith(s, prefix) ==
  Len(prefix) <= Len(s) /\ SubSeq(s, 1, Len(prefix)) = prefix

Contains(s, sub) ==
  \E k \in 1..(Len(s) - Len(sub) + 1) : SubSeq(s, k, k + Len(sub) - 1) = sub

\* The message of the Error that makeApiRequest threw.
Raised(r) == Get(r.api.val, "message").v

\* C1: every tool invocation that has finished, whatever happened on the way
\* (missing token, error status, 204, parsed body, exception of fetch or of
\* response.json()), returned a value {content: [one {type: "text", text:
\* string}]}; none ended by raising.
C1_AlwaysEnvelope ==
  \A i \in Inv :
    inv[i].pc = "done" =>
      inv[i].result.kind = "return" /\ IsEnvelope(inv[i].result.val)

C1_Witness ==
  \E i, j \in Inv :
    /\ inv[i].pc = "done" /\ inv[i].api.kind = "throw" /\ inv[i].parses = 1
    /\ IsEnvelope(inv[i].result.val)
    /\ inv[j].pc = "done" /\ inv[j].call.tool = "add"
    /\ inv[j].result = Return(Envelope("5"))

\* C2: with an empty or absent token, a CRM tool that has been invoked has
\* already returned, its text mentions the missing token, and fetch was not
\* called.
C2_MissingTokenNoFetch ==
  (token.t = "undefined" \/ token = JStr("")) =>
    \A i \in Inv :
      (inv[i].call.tool \in CrmTools /\ inv[i].pc # "rejected") =>
        /\ inv[i].pc = "done"
        /\ inv[i].fetches = 0
        /\ inv[i].request = NoRequest
        /\ IsEnvelope(inv[i].result.val)
        /\ Contains(TextOf(inv[i]),
                    "HUBSPOT_ACCESS_TOKEN environment variable is not set")

C2_Witness ==
  \E i \in Inv :
    /\ token = JStr("")
    /\ inv[i].pc = "done"
    /\ inv[i].call.tool = "crm_create_company"
    /\ inv[i].fetches = 0

\* The two results that are decided by the status alone.
StatusStrings(r) ==
  /\ (r.status < 200 \/ r.status > 299) =>
       /\ r.api = Return(JStr("Error fetching data from HubSpot: Status "
                              \o ToString(r.status)))
       /\ r.parses = 0
       /\ TextOf(r) = "Error fetching data from HubSpot: Status " \o ToString(r.status)
  /\ r.status = 204 =>
       /\ r.api = Return(JStr("No data returned: Status 204"))
       /\ r.parses = 0
       /\ TextOf(r) = "No data returned: Status 204"

\* C3 as claimed: for every completed response the client does not raise; an
\* error status and 204 give their strings, any other success status the
\* parsed body.
C3_Original ==
  \A i \in Inv :
    (inv[i].pc = "done" /\ inv[i].status # 0) =>
      /\ inv[i].api.kind = "return"
      /\ StatusStrings(inv[i])
      /\ (inv[i].status \in 200..299 /\ inv[i].status # 204) =>
           inv[i].parses = 1 /\ inv[i].api.val \in Bodies

\* C3 (amended): an error status and 204 give their strings, returned and
\* not raised, with no body parsed and the Envelope text equal to the
\* string; any other success status has the body parsed once and gives the
\* parsed body, or raises the exception of response.json().
C3_StatusDecides ==
  \A i \in Inv :
    (inv[i].pc = "done" /\ inv[i].status # 0) =>
      /\ StatusStrings(inv[i])
      /\ (inv[i].status \in 200..299 /\ inv[i].status # 204) =>
           /\ inv[i].parses = 1
           /\ \/ inv[i].api.kind = "return" /\ inv[i].api.val \in Bodies
              \/ inv[i].api.kind = "throw" /\ Raised(inv[i]) \in ParseErrors

C3_Witness ==
  \E i, j \in Inv :
    /\ inv[i].pc = "done" /\ inv[i].status = 404
    /\ TextOf(inv[i]) = "Error fetching data from HubSpot: Status 404"
    /\ inv[j].pc = "done" /\ inv[j].status = 200 /\ inv[j].api.kind = "throw"
    /\ TextOf(inv[j]) = "Error performing request: Unexpected end of JSON input"

\* C4: an invocation calls fetch at most once, whatever the call's outcome,
\* and the add tool never does.
C4_AtMostOneFetch ==
  \A i \in Inv :
    /\ inv[i].fetches <= 1
    /\ inv[i].call.tool = "add" => inv[i].fetches = 0

C4_Witness ==
  \E i, j \in Inv :
    /\ inv[i].pc = "done" /\ inv[i].status = 500 /\ inv[i].fetches = 1
    /\ inv[j].pc = "done" /\ inv[j].api.kind = "throw" /\ inv[j].fetches = 1

\* C5: the formatter returns an Envelope whose text is the input itself for
\* a string, "No data returned" for null and undefined, the JSON text for an
\* object or array, and the string coercion for a number or boolean.
C5_FormatterCases ==
  formatted # NoEnvelope =>
    /\ IsEnvelope(formatted)
    /\ data.t = "string" => formatted.content[1].text = data.v
    /\ data.t \in {"null", "undefined"} =>
         formatted.content[1].text = "No data returned"
    /\ data.t \in {"array", "object"} =>
         formatted.content[1].text = JSONstringify(data)
    /\ data.t = "number" => formatted.content[1].text = ToString(data.v)
    /\ data.t = "boolean" =>
         formatted.content[1].text = (IF data.v THEN "true" ELSE "false")

C5_Witness ==
  /\ data = JObj(<< <<"id", Null>>,
                    <<"results", JArr(<<JNum(-12), JObj(<< <<"name", Null>> >>)>>)>> >>)
  /\ formatted = Envelope("{\"id\":null,\"results\":[-12,{\"name\":null}]}")

\* The form-urlencoded spelling of the property names of the model.
EncodedName(n) ==
  CASE n = "name" -> "name"
    [] n = "domain" -> "domain"
    [] n = "hs object:id" -> "hs+object%3Aid"

RECURSIVE EncodedList(_)
EncodedList(items) ==
  IF items = <<>> THEN ""
  ELSE EncodedName(Head(items).v)
       \o (IF Tail(items) = <<>> THEN "" ELSE "%2C" \o EncodedList(Tail(items)))

\* The invocations of crm_get_company that reached fetch.
GetFetched(i) == inv[i].call.tool = "crm_get_company" /\ inv[i].fetches >= 1

PropertiesArg(i) == Get(inv[i].call.args, "properties")
AssociationsArg(i) == Get(inv[i].call.args, "associations")

\* C6: crm_get_company with a non-empty properties list sends a GET without
\* a body to /crm/v3/objects/companies/<companyId>, and the query string
\* opens with properties=<the names joined by commas, URL-encoded>.
C6_GetRequest ==
  \A i \in Inv :
    (GetFetched(i) /\ PropertiesArg(i).t = "array" /\ PropertiesArg(i).v # <<>>) =>
      LET expected == "https://api.hubapi.com/crm/v3/objects/companies/"
                      \o Get(inv[i].call.args, "companyId").v
                      \o "?properties=" \o EncodedList(PropertiesArg(i).v)
          url == inv[i].request.url
      IN /\ inv[i].request.method = "GET"
         /\ inv[i].request.body = Undefined
         /\ \A h \in 1..Len(inv[i].request.headers) :
              inv[i].request.headers[h][1] # "Content-Type"
         /\ StartsWith(url, expected)
         /\ AssociationsArg(i).t = "undefined" => url = expected
         /\ url # expected => SubSeq(url, Len(expected) + 1, Len(expected) + 1) = "&"

C6_Witness ==
  \E i \in Inv :
    /\ inv[i].pc = "fetch"
    /\ inv[i].call =
         Call("crm_get_company",
              GetArgs("123", JArr(<<JStr("name"), JStr("domain")>>), Undefined))
    /\ inv[i].request.url =
         "https://api.hubapi.com/crm/v3/objects/companies/123?properties=name%2Cdomain"
    /\ inv[i].request.method = "GET"
    /\ inv[i].request.body = Undefined

\* C7: in crm_get_company an empty properties (or associations) array leaves
\* the parameter out of the URL, as an absent argument does.
C7_EmptyListOmitted ==
  \A i \in Inv :
    GetFetched(i) =>
      /\ PropertiesArg(i) = JArr(<<>>) => ~Contains(inv[i].request.url, "properties=")
      /\ AssociationsArg(i) = JArr(<<>>) =>
           ~Contains(inv[i].request.url, "associations=")

\* C8 as claimed: when makeApiRequest raises, the Envelope text is the
\* exception's message.
C8_Original ==
  \A i \in Inv :
    (inv[i].pc = "done" /\ inv[i].api.kind = "throw") =>
      /\ inv[i].result.kind = "return"
      /\ IsEnvelope(inv[i].result.val)
      /\ TextOf(inv[i]) = Raised(inv[i])

\* C8 (amended): when makeApiRequest raises, the invocation returns the
\* Envelope whose text is "Error performing request: " followed by the
\* exception's message.
C8_CaughtWithPrefix ==
  \A i \in Inv :
    (inv[i].pc = "done" /\ inv[i].api.kind = "throw") =>
      /\ inv[i].result.kind = "return"
      /\ IsEnvelope(inv[i].result.val)
      /\ TextOf(inv[i]) = "Error performing request: " \o Raised(inv[i])

C8_Witness ==
  \E i, j \in Inv :
    /\ inv[i].pc = "done" /\ inv[i].fetches = 1 /\ inv[i].status = 0
    /\ TextOf(inv[i]) = "Error performing request: Network connection lost."
    /\ inv[j].pc = "done" /\ inv[j].parses = 1 /\ inv[j].api.kind = "throw"
    /\ TextOf(inv[j]) = "Error performing request: Unexpected end of JSON input"

\* Two invocations given the same call and the same response agree on the
\* request they sent and on what they returned.
SameInputsSameOutputs ==
  \A i, j \in Inv :
    inv[i].call = inv[j].call =>
      /\ (inv[i].fetches >= 1 /\ inv[j].fetches >= 1) =>
           inv[i].request = inv[j].request
      /\ (inv[i].pc = "done" /\ inv[j].pc = "done" /\ inv[i].status = inv[j].status
          /\ inv[i].api = inv[j].api) =>
           inv[i].result = inv[j].result
      /\ (inv[i].pc = "done" /\ inv[j].pc = "done" /\ inv[i].status = inv[j].status
          /\ inv[i].parses = 0 /\ inv[j].parses = 0 /\ inv[i].status # 0) =>
           inv[i].api = inv[j].api

\* C10: under every interleaving, a step of one invocation leaves every
\* other invocation and the captured token as they were, and invocations
\* with the same arguments and the same response send the same request and
\* return the same Envelope.
C10_Independent ==
  [][/\ token' = token
     /\ \A i, j \in Inv : (i # j /\ inv'[i] # inv[i]) => inv'[j] = inv[j]
     /\ SameInputsSameOutputs']_vars

C10_Witness ==
  \E i, j \in Inv :
    /\ i # j
    /\ inv[i].call = inv[j].call
    /\ inv[i].pc = "json" /\ inv[j].pc = "done"
    /\ inv[j].status = 404
    /\ inv[i].request = inv[j].request

====
